---- MODULE Spec2Model ----
(***************************************************************************)
(* Verification model of the investment assistant's orchestration layer:   *)
(* the intent-routing graph (graph.py, nodes/router.py), the retry         *)
(* executor (production/error_handling.py, production/enhanced_graph.py),  *)
(* the metrics collectors (production/monitoring.py) and the rate limiter  *)
(* (api/main.py).                                                          *)
(*                                                                         *)
(* Text is modelled as a sequence of tokens: a token is a whole word, a    *)
(* numeric literal, the separator "|" or a blank.  Floating point values   *)
(* (confidence) are carried as integers in hundredths.                     *)
(***************************************************************************)
EXTENDS Integers, Sequences, FiniteSets, TLC

VARIABLES
    run,     \* one run of the compiled LangGraph graph (graph.py)
    ex,      \* one call of the with_error_handling wrapper around invoke
    pg,      \* the ProductionInvestmentGraph instance
    mc,      \* the MetricsCollector instance `metrics`
    perf,    \* the PerformanceMonitor instance `performance`
    eh,      \* the ErrorHandler instance `error_handler`
    rl,      \* api/main.py: request_times, user_id -> list of timestamps
    clock,   \* time.time(), in whole seconds
    tasks,   \* concurrently scheduled callers (coroutines or threads)
    hist     \* history of observable events, for stating properties

vars == <<run, ex, pg, mc, perf, eh, rl, clock, tasks, hist>>

----------------------------------------------------------------------------
(* Bounds of the model *)

MaxContent == 3      \* longest classifier output, in tokens

----------------------------------------------------------------------------
(* Text helpers *)

Labels == {"profile_analysis", "portfolio_creation", "market_research",
           "question_answering"}

Numerals == {"0.9", "1.5", "-0.2"}

Tokens == Labels \cup Numerals \cup {"foo", "|", " "}

\* value of a numeric literal, in hundredths
NumVal(tok) ==
    CASE tok = "0.9"  -> 90
      [] tok = "1.5"  -> 150
      [] tok = "-0.2" -> -20

SeqsUpTo(S, n) == UNION {[1..k -> S] : k \in 0..n}

RECURSIVE LStrip(_)
LStrip(s) == IF s # <<>> /\ Head(s) = " " THEN LStrip(Tail(s)) ELSE s

RECURSIVE RStrip(_)
RStrip(s) ==
    IF s # <<>> /\ s[Len(s)] = " " THEN RStrip(SubSeq(s, 1, Len(s) - 1)) ELSE s

\* str.strip()
Strip(s) == RStrip(LStrip(s))

\* str.split("|"): the list of the segments between separators
RECURSIVE SplitAcc(_, _, _)
SplitAcc(s, cur, acc) ==
    IF s = <<>> THEN Append(acc, cur)
    ELSE IF Head(s) = "|" THEN SplitAcc(Tail(s), <<>>, Append(acc, cur))
    ELSE SplitAcc(Tail(s), Append(cur, Head(s)), acc)

Split(s) == SplitAcc(s, <<>>, <<>>)

\* float(x): surrounding blanks are ignored, the rest must be one literal
ParseFloat(seg) ==
    LET t == Strip(seg) IN
    IF Len(t) = 1 /\ t[1] \in Numerals
    THEN [ok |-> TRUE, val |-> NumVal(t[1])]
    ELSE [ok |-> FALSE, val |-> 0]

----------------------------------------------------------------------------
(* graph.py and nodes/router.py: the routing graph *)

Stages == {"profile_analyzer", "portfolio_builder", "market_researcher",
           "question_answerer"}

\* a Context key that has not been set
NoIntent == <<"<unset>">>
NoConfidence == -1000

DefaultIntent == <<"question_answering">>
DefaultConfidence == 50

\* router_node, after chain.invoke has returned `content`: what it returns
router_node(content) ==
    LET parts == Split(Strip(content)) IN
    IF Len(parts) = 2 /\ ParseFloat(parts[2]).ok
    THEN [intent |-> parts[1], confidence |-> ParseFloat(parts[2]).val]
    ELSE [intent |-> DefaultIntent, confidence |-> DefaultConfidence]

\* the variant that falls through to END for an unmatched intent
route_decision_end(state) ==
    LET intent == IF state.intent = NoIntent THEN DefaultIntent
                  ELSE state.intent IN
    IF intent = <<"profile_analysis">> THEN "profile_analyzer"
    ELSE IF intent = <<"portfolio_creation">> THEN "portfolio_builder"
    ELSE IF intent = <<"market_research">> THEN "market_researcher"
    ELSE "END"

route_decision(state) ==
    LET intent == IF state.intent = NoIntent THEN DefaultIntent
                  ELSE state.intent IN
    IF intent = <<"profile_analysis">> THEN "profile_analyzer"
    ELSE IF intent = <<"portfolio_creation">> THEN "portfolio_builder"
    ELSE IF intent = <<"market_research">> THEN "market_researcher"
    ELSE "question_answerer"

\* graph.add_edge(stage, END)
EdgeAfter(stage) == "END"

\* the state in which graph.invoke starts: the caller's input may already
\* carry an intent (tests/test_step2.py passes one)
InputIntents == {NoIntent, <<"portfolio_creation">>}

NewRun(content, intent) ==
    [node |-> "router", content |-> content,
     state |-> [intent |-> intent, confidence |-> NoConfidence],
     executed |-> <<>>, classified |-> FALSE, clsFailed |-> FALSE]

IdleRun == [node |-> "idle", content |-> <<>>,
            state |-> [intent |-> NoIntent, confidence |-> NoConfidence],
            executed |-> <<>>, classified |-> FALSE, clsFailed |-> FALSE]

\* the entry node: the classifier call either raises (the run fails: the
\* call is outside router_node's try block) or returns run.content
GraphRouter ==
    /\ run.node = "router"
    /\ \E raises \in BOOLEAN :
         run' = IF raises
                THEN [run EXCEPT !.node = "errored", !.clsFailed = TRUE]
                ELSE [run EXCEPT !.node = "route",
                                 !.state = router_node(run.content),
                                 !.classified = TRUE]
    /\ UNCHANGED <<ex, pg, mc, perf, eh, rl, clock, tasks, hist>>

\* the conditional edge out of the router
GraphRoute ==
    /\ run.node = "route"
    /\ run' = [run EXCEPT !.node = route_decision(run.state)]
    /\ UNCHANGED <<ex, pg, mc, perf, eh, rl, clock, tasks, hist>>

\* a Stage node runs; it returns keys other than intent and confidence, or
\* it raises and the run fails
GraphStage ==
    /\ run.node \in Stages
    /\ \E raises \in BOOLEAN :
         run' = [run EXCEPT !.executed = Append(run.executed, run.node),
                            !.node = IF raises THEN "errored"
                                     ELSE EdgeAfter(run.node)]
    /\ UNCHANGED <<ex, pg, mc, perf, eh, rl, clock, tasks, hist>>

\* graph.invoke as one call: the classifier returns `content` or raises,
\* then the selected Stage returns or raises `err`
GraphInvoke(content, clsRaises, stageRaises, err) ==
    LET st   == router_node(content)
        node == route_decision(st)
    IN  IF clsRaises
        THEN [raised |-> TRUE, err |-> err, state |-> st,
              classifier |-> 1, stages |-> <<>>]
        ELSE IF node \notin Stages
        THEN [raised |-> FALSE, err |-> err, state |-> st,
              classifier |-> 1, stages |-> <<>>]
        ELSE [raised |-> stageRaises, err |-> err, state |-> st,
              classifier |-> 1, stages |-> <<node>>]

----------------------------------------------------------------------------
(* production/monitoring.py *)

CounterNames == {"total_requests", "successful_requests", "failed_requests",
                 "total_errors"}

WindowSize == 100

\* MetricsCollector.__init__: defaultdict(int) counters, deques of
\* window_size entries
NewMetrics == [counters |-> [c \in CounterNames |-> 0],
               response_times      |-> <<>>,
               requests_per_minute |-> <<>>,
               intents  |-> <<>>,
               errors   |-> <<>>,
               gauges   |-> <<>>,
               monitor  |-> [pc |-> "sample", wait |-> 0]]

\* a dict of counts, in insertion order: a sequence of [key, n]
DictGet(d, k) ==
    IF \E i \in 1..Len(d) : d[i].key = k
    THEN (CHOOSE e \in {d[i] : i \in 1..Len(d)} : e.key = k).n
    ELSE 0

\* d[k] = d.get(k, 0) + 1
DictBump(d, k) ==
    IF \E i \in 1..Len(d) : d[i].key = k
    THEN [i \in 1..Len(d) |->
            IF d[i].key = k THEN [d[i] EXCEPT !.n = @ + 1] ELSE d[i]]
    ELSE Append(d, [key |-> k, n |-> 1])

RECURSIVE DictSum(_)
DictSum(d) == IF d = <<>> THEN 0 ELSE Head(d).n + DictSum(Tail(d))

\* deque(maxlen=window_size).append
DequeAppend(q, x) ==
    IF Len(q) >= WindowSize THEN Append(Tail(q), x) ELSE Append(q, x)

\* the two appends that open record_request
RecordSamples(m, response_time, now) ==
    [m EXCEPT !.response_times = DequeAppend(@, response_time),
              !.requests_per_minute = DequeAppend(@, now)]

\* MetricsCollector.record_request, run without interruption
record_request(m0, intent, response_time, success, now) ==
    LET m == RecordSamples(m0, response_time, now) IN
    [m EXCEPT
       !.counters = [c \in CounterNames |->
           IF c = "total_requests" THEN m.counters[c] + 1
           ELSE IF c = "successful_requests" /\ success THEN m.counters[c] + 1
           ELSE IF c = "failed_requests" /\ ~success THEN m.counters[c] + 1
           ELSE m.counters[c]],
       !.intents = DictBump(m.intents, intent)]

\* MetricsCollector.record_error: counters[f"error_{error_type}"] and
\* counters["total_errors"] (no caller in the repository)
record_error(m, error_type) ==
    [m EXCEPT !.counters["total_errors"] = @ + 1,
              !.errors = DictBump(m.errors, error_type)]

Max(a, b) == IF a >= b THEN a ELSE b

\* get_metrics_summary()["errors"]["rate"], as the fraction num / den
ErrorRate(m) ==
    [num |-> m.counters["total_errors"],
     den |-> Max(m.counters["total_requests"], 1)]

\* get_metrics_summary()["requests"]["per_minute"]: the timestamps of the
\* requests_per_minute deque with now - t < 60
RequestsPerMinute(m, now) ==
    Cardinality({i \in 1..Len(m.requests_per_minute) :
                    now - m.requests_per_minute[i] < 60})

\* get_metrics_summary()["requests"]
RequestsSummary(m) ==
    [total      |-> m.counters["total_requests"],
     successful |-> m.counters["successful_requests"],
     failed     |-> m.counters["failed_requests"]]

PerfCapacity == 100

record_component_time_uncapped(p, duration, now) ==
    [p EXCEPT !.graph_execution =
        Append(@, [duration |-> duration, timestamp |-> now])]

\* PerformanceMonitor.record_component_time for "graph_execution"
record_component_time(p, duration, now) ==
    LET l == Append(p.graph_execution,
                    [duration |-> duration, timestamp |-> now])
    IN  [p EXCEPT !.graph_execution =
            IF Len(l) > PerfCapacity
            THEN SubSeq(l, Len(l) - PerfCapacity + 1, Len(l)) ELSE l]

NewPerformance == [graph_execution |-> <<>>]

\* PerformanceMonitor.get_component_stats: components without measurements
\* are left out
get_component_stats(p) ==
    [c \in {k \in DOMAIN p : p[k] # <<>>} |-> [count |-> Len(p[c])]]

ComponentTimerExit_onsuccess(p, raised, now) ==
    IF raised THEN p ELSE record_component_time(p, 0, now)

\* ComponentTimer.__exit__: runs when the with-block is left, normally or
\* by an exception (raised), and records the duration either way
ComponentTimerExit(p, raised, now) == record_component_time(p, 0, now)

----------------------------------------------------------------------------
(* production/error_handling.py *)

NoError == [type |-> "None", msg |-> ""]

Err(type, msg) == [type |-> type, msg |-> msg]

\* what a failing classifier or Stage call may raise
GraphErrors == {Err("ModelTimeoutError", "model timed out"),
                Err("DataFetchError", "data source unreachable"),
                Err("ValidationError", "rejected by stage"),
                Err("Exception", "connection refused")}

NewErrorHandler == [error_counts |-> <<>>]

\* a key that is already in the log is not counted again
log_error_first(h, e) ==
    IF DictGet(h.error_counts, <<e.type, e.msg>>) > 0 THEN h
    ELSE [h EXCEPT !.error_counts = DictBump(h.error_counts, <<e.type, e.msg>>)]

\* ErrorHandler.log_error: the frequency count (messages of the model are
\* shorter than the 100 characters kept in the key)
log_error(h, e) ==
    [h EXCEPT !.error_counts = DictBump(h.error_counts, <<e.type, e.msg>>)]

\* get_error_stats()["total_errors"]
ErrorLogTotal(h) == DictSum(h.error_counts)

\* `if attempt < retries` with one attempt too few
ShouldRetry_short(attempt, retries) == attempt + 1 < retries

\* `if attempt < retries`
ShouldRetry(attempt, retries) == attempt < retries

\* `except ValidationError` going on like the generic handler
HandlerRetries_all(e) == TRUE

\* the handlers that `continue`: every one but `except ValidationError`
HandlerRetries(e) == e.type # "ValidationError"

RECURSIVE Pow2(_)
Pow2(n) == IF n = 0 THEN 1 ELSE 2 * Pow2(n - 1)

BackoffDelay_constant(e, attempt, delay) == delay

\* the argument of time.sleep in the handler of error e
BackoffDelay(e, attempt, delay) ==
    IF e.type = "ModelTimeoutError" THEN delay * Pow2(attempt) ELSE delay

\* the handlers that assign last_exception: every one but ValidationError's
RemembersError(e) == e.type # "ValidationError"

\* `if fallback_response:`
UsesFallback(hasFallback) == hasFallback

\* `raise last_exception`; raising None is a TypeError
RaiseLast(last_exception) ==
    IF last_exception = NoError
    THEN Err("TypeError", "exceptions must derive from BaseException")
    ELSE last_exception

----------------------------------------------------------------------------
(* production/enhanced_graph.py *)

MaxMessageLen == 1000

\* the decorator arguments of ProductionInvestmentGraph.invoke
ProductionRetries == 2
Delay == 1

\* input_data, by what invoke looks at: whether user_message is there, is a
\* str, supports slicing, its length and its length after strip()
Input(present, isStr, sliceable, len, stripped) ==
    [present |-> present, isStr |-> isStr, sliceable |-> sliceable,
     len |-> len, stripped |-> stripped]

ValidInputs == {Input(TRUE, TRUE, TRUE, 5, 5),
                Input(TRUE, TRUE, TRUE, MaxMessageLen, MaxMessageLen)}

InvalidInputs == {Input(FALSE, FALSE, FALSE, 0, 0),        \* no user_message
                  Input(TRUE, FALSE, TRUE, 2, 2),          \* a list
                  Input(TRUE, FALSE, FALSE, 0, 0),         \* a number, None
                  Input(TRUE, TRUE, TRUE, 0, 0),           \* ""
                  Input(TRUE, TRUE, TRUE, 2, 0),           \* blanks only
                  Input(TRUE, TRUE, TRUE, MaxMessageLen + 1,
                        MaxMessageLen + 1)}

Inputs == ValidInputs \cup InvalidInputs

\* _validate_input: the ValidationError it raises, NoError when it returns
validate_input(inp) ==
    IF ~inp.present
    THEN Err("ValidationError", "Missing required field: user_message")
    ELSE IF ~inp.isStr
    THEN Err("ValidationError", "user_message must be a string")
    ELSE IF inp.stripped = 0
    THEN Err("ValidationError", "user_message cannot be empty")
    ELSE IF inp.len > MaxMessageLen
    THEN Err("ValidationError", "user_message too long (max 1000 characters)")
    ELSE NoError

\* the request fails validation, in the sense of _validate_input
IsInvalid(inp) == validate_input(inp) # NoError

ErrorIntent == <<"error">>

\* the body of invoke for one attempt; g is what graph.invoke would do.
\* The result names the new collectors and what the call returned or raised.
invoke(inp, g, p, m, pf, now) ==
    LET p1 == [p EXCEPT !.request_count = @ + 1] IN
    IF inp.present /\ ~inp.sliceable
    THEN \* input_data.get('user_message', '')[:100] raises, before the try
         [raised |-> TRUE, err |-> Err("Exception", "object is not subscriptable"),
          intent |-> NoIntent, pg |-> p1, mc |-> m, perf |-> pf,
          classifier |-> 0, stages |-> <<>>]
    ELSE IF validate_input(inp) # NoError
    THEN [raised |-> TRUE, err |-> validate_input(inp),
          intent |-> NoIntent, pg |-> p1,
          mc |-> record_request(m, ErrorIntent, 0, FALSE, now), perf |-> pf,
          classifier |-> 0, stages |-> <<>>]
    ELSE IF g.raised
    THEN [raised |-> TRUE, err |-> g.err,
          intent |-> NoIntent, pg |-> p1,
          mc |-> record_request(m, ErrorIntent, 0, FALSE, now),
          perf |-> ComponentTimerExit(pf, TRUE, now),
          classifier |-> g.classifier, stages |-> g.stages]
    ELSE [raised |-> FALSE, err |-> NoError,
          intent |-> IF g.state.intent = NoIntent THEN <<"unknown">>
                     ELSE g.state.intent,
          pg |-> p1,
          mc |-> record_request(m, IF g.state.intent = NoIntent
                                   THEN <<"unknown">> ELSE g.state.intent,
                                0, TRUE, now),
          perf |-> ComponentTimerExit(pf, FALSE, now),
          classifier |-> g.classifier, stages |-> g.stages]

\* ProductionInvestmentGraph.__init__
NewGraphObject == [request_count |-> 0, invokes |-> 0]

\* the request get_health_status sends through invoke:
\* "What is compound interest?"
ProbeInput == Input(TRUE, TRUE, TRUE, 26, 26)

NoHealth == [raised |-> FALSE, status |-> "none", uptime |-> 0,
             requests_processed |-> 0, error_rate |-> [num |-> 0, den |-> 1],
             components |-> {}]

CatchesProbeError_validation(err) == err.type = "ValidationError"

\* the bare `except:` around the probe in get_health_status
CatchesProbeError(err) == TRUE

get_health_status_successful(outcome, m, pf, now) ==
    IF outcome.kind = "raised" /\ ~CatchesProbeError(outcome.err)
    THEN [NoHealth EXCEPT !.raised = TRUE]
    ELSE [raised |-> FALSE,
          status |-> IF outcome.kind # "raised"
                        /\ outcome.intent # ErrorIntent
                     THEN "healthy" ELSE "unhealthy",
          uptime |-> now - 0,
          requests_processed |-> RequestsSummary(m).successful,
          error_rate |-> ErrorRate(m),
          components |-> DOMAIN get_component_stats(pf)]

\* get_health_status once the probe has returned or raised `outcome`: the
\* record it returns; raised when the probe's exception leaves the method.
\* The collector's start_time is 0.
get_health_status(outcome, m, pf, now) ==
    IF outcome.kind = "raised" /\ ~CatchesProbeError(outcome.err)
    THEN [NoHealth EXCEPT !.raised = TRUE]
    ELSE LET api_healthy == IF outcome.kind = "raised" THEN FALSE
                            ELSE outcome.intent # ErrorIntent
         IN  [raised |-> FALSE,
              status |-> IF api_healthy THEN "healthy" ELSE "unhealthy",
              uptime |-> now - 0,
              requests_processed |-> RequestsSummary(m).total,
              error_rate |-> ErrorRate(m),
              components |-> DOMAIN get_component_stats(pf)]

----------------------------------------------------------------------------
(* The retry executor: with_error_handling(retries, delay, fallback)       *)
(* wrapped around invoke.  ex.pc is the wrapper's position.                *)

MaxRetries == 2      \* largest `retries` argument explored
MaxInvokes == 1      \* wrapper calls per behaviour

\* classifier outputs explored under the executor
ExecContents == {<<"profile_analysis", "|", "0.9">>, <<"foo", "|", "0.9">>}

\* what graph.invoke may do in one attempt
GraphBehaviours ==
    {GraphInvoke(c, FALSE, FALSE, NoError) : c \in ExecContents}
    \cup {GraphInvoke(<<>>, TRUE, FALSE, e) : e \in GraphErrors}
    \cup {GraphInvoke(c, FALSE, TRUE, e) : c \in ExecContents,
                                          e \in GraphErrors}

NoOutcome == [kind |-> "none", intent |-> NoIntent, err |-> NoError]

IdleEx == [pc |-> "idle", retries |-> ProductionRetries, hasFallback |-> TRUE,
           input |-> Input(FALSE, FALSE, FALSE, 0, 0), attempt |-> 0,
           last_exception |-> NoError, sleepFor |-> 0, outcome |-> NoOutcome,
           log |-> <<>>, slept |-> <<>>, probe |-> FALSE, health |-> NoHealth,
           base |-> [request_count |-> 0, classifier |-> 0, stages |-> 0,
                     samples |-> 0, total_requests |-> 0,
                     mc |-> NewMetrics, eh |-> NewErrorHandler]]

NoHistory == [classifier |-> 0, stages |-> 0]

\* the caller calls the wrapper: `last_exception = None`, first iteration
ExBegin ==
    /\ ex.pc \in {"idle", "done"}
    /\ ex.probe => ex.health # NoHealth
    /\ pg.invokes < MaxInvokes
    /\ \E inp \in Inputs :
         ex' = [ex EXCEPT !.pc = "call", !.input = inp, !.attempt = 0,
                          !.last_exception = NoError, !.sleepFor = 0,
                          !.outcome = NoOutcome, !.log = <<>>, !.slept = <<>>,
                          !.probe = FALSE, !.health = NoHealth,
                          !.base = [request_count |-> pg.request_count,
                                    classifier |-> hist.classifier,
                                    stages |-> hist.stages,
                                    samples |-> Len(perf.graph_execution),
                                    total_requests |->
                                        mc.counters["total_requests"],
                                    mc |-> mc, eh |-> eh]]
    /\ pg' = [pg EXCEPT !.invokes = @ + 1]
    /\ UNCHANGED <<run, mc, perf, eh, rl, clock, tasks, hist>>

\* get_health_status is called: it sends its probe through the wrapped
\* invoke
HealthBegin ==
    /\ ex.pc \in {"idle", "done"}
    /\ ex.probe => ex.health # NoHealth
    /\ pg.invokes < MaxInvokes
    /\ ex' = [ex EXCEPT !.pc = "call", !.input = ProbeInput, !.attempt = 0,
                        !.last_exception = NoError, !.sleepFor = 0,
                        !.outcome = NoOutcome, !.log = <<>>, !.slept = <<>>,
                        !.probe = TRUE, !.health = NoHealth,
                        !.base = [request_count |-> pg.request_count,
                                  classifier |-> hist.classifier,
                                  stages |-> hist.stages,
                                  samples |-> Len(perf.graph_execution),
                                  total_requests |->
                                      mc.counters["total_requests"],
                                  mc |-> mc, eh |-> eh]]
    /\ pg' = [pg EXCEPT !.invokes = @ + 1]
    /\ UNCHANGED <<run, mc, perf, eh, rl, clock, tasks, hist>>

\* the probe has returned or raised: the rest of get_health_status
HealthReport ==
    /\ ex.pc = "done"
    /\ ex.probe
    /\ ex.health = NoHealth
    /\ ex' = [ex EXCEPT !.health = get_health_status(ex.outcome, mc, perf,
                                                     clock)]
    /\ UNCHANGED <<run, pg, mc, perf, eh, rl, clock, tasks, hist>>

\* what the wrapper returns or raises once the loop is left by `break`
AfterLoop(hasFallback, last_exception) ==
    IF UsesFallback(hasFallback)
    THEN [kind |-> "fallback", intent |-> ErrorIntent, err |-> NoError]
    ELSE [kind |-> "raised", intent |-> NoIntent,
          err |-> RaiseLast(last_exception)]

\* one iteration of the loop: func is called; on an exception the matching
\* handler logs it and either goes to sleep or leaves the loop
ExCall ==
    /\ ex.pc = "call"
    /\ \E g \in GraphBehaviours :
         LET r == invoke(ex.input, g, pg, mc, perf, clock)
             last == IF r.raised /\ RemembersError(r.err) THEN r.err
                     ELSE ex.last_exception
             entry == [raised |-> r.raised, err |-> r.err]
         IN  /\ pg' = r.pg
             /\ mc' = r.mc
             /\ perf' = r.perf
             /\ hist' = [hist EXCEPT !.classifier = @ + r.classifier,
                                     !.stages = @ + Len(r.stages)]
             /\ eh' = IF r.raised THEN log_error(eh, r.err) ELSE eh
             /\ ex' = IF ~r.raised
                      THEN [ex EXCEPT !.pc = "done",
                              !.log = Append(@, entry),
                              !.outcome = [kind |-> "result",
                                           intent |-> r.intent,
                                           err |-> NoError]]
                      ELSE IF HandlerRetries(r.err)
                              /\ ShouldRetry(ex.attempt, ex.retries)
                      THEN [ex EXCEPT !.pc = "sleep",
                              !.log = Append(@, entry),
                              !.last_exception = last,
                              !.sleepFor = BackoffDelay(r.err, ex.attempt,
                                                        Delay)]
                      ELSE [ex EXCEPT !.pc = "done",
                              !.log = Append(@, entry),
                              !.last_exception = last,
                              !.outcome = AfterLoop(ex.hasFallback, last)]
    /\ UNCHANGED <<run, rl, clock, tasks>>

\* time.sleep(...) returns; `continue` with the next attempt
ExSleep ==
    /\ ex.pc = "sleep"
    /\ clock' = clock + ex.sleepFor
    /\ ex' = [ex EXCEPT !.pc = "call", !.attempt = @ + 1,
                        !.slept = Append(@, ex.sleepFor), !.sleepFor = 0]
    /\ UNCHANGED <<run, pg, mc, perf, eh, rl, tasks, hist>>

----------------------------------------------------------------------------
(* api/main.py: rate_limit_check, a coroutine run by the event loop.       *)
(* tasks[t] is one request's run of the dependency; rl.running is the task *)
(* that holds the event loop (0 when none): another task can only be       *)
(* scheduled when the running one finishes or reaches an await.            *)

WindowSeconds == 60

MaxPerMinute == 2    \* config.max_requests_per_minute explored
NTasks == 4          \* requests per behaviour
MaxTicks == 3        \* clock advances per behaviour

Identities == {"anonymous", "u1"}

\* how far the clock moves in one advance
TickSteps == {1, 59}

TaskIds == 1..NTasks

NewTask == [pc |-> "ready", user |-> "anonymous", now |-> 0, recent |-> 0,
            oldest |-> -1]

\* a request whose check has returned or raised; its locals are gone
Finished == [NewTask EXCEPT !.pc = "done"]

\* request_times = {}
NewRateLimiter(enabled) ==
    [times   |-> [u \in Identities |-> <<>>],
     present |-> [u \in Identities |-> FALSE],
     enabled |-> enabled, running |-> 0, ticks |-> 0]

\* `<=` for `<`
RECURSIVE Prune_inclusive(_, _)
Prune_inclusive(ts, now) ==
    IF ts = <<>> THEN <<>>
    ELSE IF now - Head(ts) <= WindowSeconds
    THEN <<Head(ts)>> \o Prune_inclusive(Tail(ts), now)
    ELSE Prune_inclusive(Tail(ts), now)

\* [t for t in request_times[user_id] if now - t < 60]
RECURSIVE Prune(_, _)
Prune(ts, now) ==
    IF ts = <<>> THEN <<>>
    ELSE IF now - Head(ts) < WindowSeconds
    THEN <<Head(ts)>> \o Prune(Tail(ts), now)
    ELSE Prune(Tail(ts), now)

\* the oldest timestamp of a window, -1 for an empty one
Oldest(ts) ==
    IF ts = <<>> THEN -1
    ELSE CHOOSE x \in {ts[i] : i \in 1..Len(ts)} :
             \A i \in 1..Len(ts) : x <= ts[i]

\* `>` for `>=`
AtLimit_over(recent) == recent > MaxPerMinute

\* recent_requests >= config.max_requests_per_minute
AtLimit(recent) == recent >= MaxPerMinute

Rejected_append(ts, now) == Append(ts, now)

\* the window after a rejected check: `raise HTTPException` comes before
\* the append
Rejected(ts, now) == ts

GateOff_never(enabled) == FALSE

\* `if not config.api_key_required: return`
GateOff(enabled) == ~enabled

\* an await between the limit check and the append
Yields_await(pc) == pc = "append"

\* the positions of rate_limit_check at which the coroutine awaits: none
Yields(pc) == FALSE

\* the event loop after task t has moved to position pc
Handover(t, pc) == IF pc = "done" \/ Yields(pc) THEN 0 ELSE t

CanRun(t) == rl.running \in {0, t}

\* lines 64-69: the gate, the identity, now = time.time()
RateEnter(t) ==
    /\ tasks[t].pc = "ready"
    /\ \A o \in TaskIds : o < t => tasks[o].pc # "ready"   \* id order
    /\ CanRun(t)
    /\ \E u \in Identities :
         IF GateOff(rl.enabled)
         THEN /\ tasks' = [tasks EXCEPT ![t] = Finished]
              /\ rl' = [rl EXCEPT !.running = Handover(t, "done")]
              /\ hist' = Append(hist, [user |-> u, now |-> clock,
                                       admitted |-> TRUE, gated |-> FALSE,
                                       oldest |-> -1])
         ELSE /\ tasks' = [tasks EXCEPT ![t].pc = "prune", ![t].user = u,
                                        ![t].now = clock,
                                        ![t].oldest = Oldest(rl.times[u])]
              /\ rl' = [rl EXCEPT !.running = Handover(t, "prune")]
              /\ hist' = hist
    /\ UNCHANGED <<run, ex, pg, mc, perf, eh, clock>>

\* lines 72-76: drop the old timestamps, or create the window
RatePrune(t) ==
    /\ tasks[t].pc = "prune"
    /\ CanRun(t)
    /\ LET u == tasks[t].user IN
       rl' = [rl EXCEPT
                !.times[u] = IF rl.present[u]
                             THEN Prune(rl.times[u], tasks[t].now)
                             ELSE <<>>,
                !.present[u] = TRUE,
                !.running = Handover(t, "check")]
    /\ tasks' = [tasks EXCEPT ![t].pc = "check"]
    /\ UNCHANGED <<run, ex, pg, mc, perf, eh, clock, hist>>

\* lines 79-81: count the window and reject at the limit
RateCheck(t) ==
    /\ tasks[t].pc = "check"
    /\ CanRun(t)
    /\ LET recent == Len(rl.times[tasks[t].user]) IN
       IF AtLimit(recent)
       THEN /\ tasks' = [tasks EXCEPT ![t] = Finished]
            /\ rl' = [rl EXCEPT
                       !.times[tasks[t].user] = Rejected(@, tasks[t].now),
                       !.running = Handover(t, "done")]
            /\ hist' = Append(hist, [user |-> tasks[t].user,
                                     now |-> tasks[t].now,
                                     admitted |-> FALSE, gated |-> TRUE,
                                     oldest |-> tasks[t].oldest])
       ELSE /\ tasks' = [tasks EXCEPT ![t].pc = "append",
                                      ![t].recent = recent]
            /\ rl' = [rl EXCEPT !.running = Handover(t, "append")]
            /\ hist' = hist
    /\ UNCHANGED <<run, ex, pg, mc, perf, eh, clock>>

\* line 83: request_times[user_id].append(now)
RateAppend(t) ==
    /\ tasks[t].pc = "append"
    /\ CanRun(t)
    /\ LET u == tasks[t].user IN
       rl' = [rl EXCEPT !.times[u] = Append(@, tasks[t].now),
                        !.running = Handover(t, "done")]
    /\ tasks' = [tasks EXCEPT ![t] = Finished]
    /\ hist' = Append(hist, [user |-> tasks[t].user, now |-> tasks[t].now,
                             admitted |-> TRUE, gated |-> TRUE,
                             oldest |-> tasks[t].oldest])
    /\ UNCHANGED <<run, ex, pg, mc, perf, eh, clock>>

\* time passes
ClockTick ==
    /\ rl.ticks < MaxTicks
    /\ \E d \in TickSteps : clock' = clock + d
    /\ rl' = [rl EXCEPT !.ticks = @ + 1]
    /\ UNCHANGED <<run, ex, pg, mc, perf, eh, tasks, hist>>

----------------------------------------------------------------------------
(* MetricsCollector.record_request called from several threads.  Nothing   *)
(* in monitoring.py serialises the calls, and `counters[k] += 1` is a read *)
(* followed by a write; a thread switch can fall between the two.          *)

NThreads == 2

ThreadIds == 1..NThreads

NewThread == [pc |-> "ready", success |-> TRUE, tmp |-> 0]

ThreadIntent(success) == IF success THEN <<"profile_analysis">> ELSE ErrorIntent

\* the counter line 36 or line 38 increments
OutcomeCounter(success) ==
    IF success THEN "successful_requests" ELSE "failed_requests"

\* a caller enters record_request(intent, response_time, success)
ThreadCall(t) ==
    /\ tasks[t].pc = "ready"
    /\ \E success \in BOOLEAN :
         /\ tasks' = [tasks EXCEPT ![t].pc = "read_total",
                                   ![t].success = success]
         /\ hist' = [hist EXCEPT
                       !.calls = @ + 1,
                       !.ok = @ + (IF success THEN 1 ELSE 0),
                       !.failed = @ + (IF success THEN 0 ELSE 1)]
    /\ mc' = RecordSamples(mc, 0, clock)
    /\ UNCHANGED <<run, ex, pg, perf, eh, rl, clock>>

\* the read half of `self.counters[name] += 1`
ReadCounter(t, at, name, next) ==
    /\ tasks[t].pc = at
    /\ tasks' = [tasks EXCEPT ![t].pc = next, ![t].tmp = name]
    /\ UNCHANGED <<run, ex, pg, mc, perf, eh, rl, clock, hist>>

\* the write half
WriteCounter(t, at, name, next) ==
    /\ tasks[t].pc = at
    /\ mc' = [mc EXCEPT !.counters[name] = tasks[t].tmp + 1]
    /\ tasks' = [tasks EXCEPT ![t].pc = next, ![t].tmp = 0]
    /\ UNCHANGED <<run, ex, pg, perf, eh, rl, clock, hist>>

\* line 32
ThreadReadTotal(t) ==
    ReadCounter(t, "read_total", mc.counters["total_requests"], "write_total")

ThreadWriteTotal(t) ==
    WriteCounter(t, "write_total", "total_requests", "read_intent")

\* line 33
ThreadReadIntent(t) ==
    ReadCounter(t, "read_intent",
                DictGet(mc.intents, ThreadIntent(tasks[t].success)),
                "write_intent")

ThreadWriteIntent(t) ==
    /\ tasks[t].pc = "write_intent"
    /\ LET k == ThreadIntent(tasks[t].success)
           v == tasks[t].tmp + 1
       IN  mc' = [mc EXCEPT !.intents =
                IF \E i \in 1..Len(mc.intents) : mc.intents[i].key = k
                THEN [i \in 1..Len(mc.intents) |->
                        IF mc.intents[i].key = k
                        THEN [mc.intents[i] EXCEPT !.n = v]
                        ELSE mc.intents[i]]
                ELSE Append(mc.intents, [key |-> k, n |-> v])]
    /\ tasks' = [tasks EXCEPT ![t].pc = "read_outcome", ![t].tmp = 0]
    /\ UNCHANGED <<run, ex, pg, perf, eh, rl, clock, hist>>

\* lines 35-38
ThreadReadOutcome(t) ==
    ReadCounter(t, "read_outcome",
                mc.counters[OutcomeCounter(tasks[t].success)],
                "write_outcome")

ThreadWriteOutcome(t) ==
    WriteCounter(t, "write_outcome", OutcomeCounter(tasks[t].success), "done")

----------------------------------------------------------------------------
(* api/main.py: chat_endpoint, a coroutine run by the event loop, and the   *)
(* MetricsCollector's monitoring thread.  tasks[t] is one /chat request    *)
(* with the locals of the retry wrapper; rl.running is the request that    *)
(* holds the event loop.  chat_endpoint calls the synchronous invoke with  *)
(* no await, and the wrapper waits with time.sleep, so the loop is held    *)
(* from the first statement of the endpoint to its return.  The monitoring *)
(* thread is a threading.Thread and does not run on the loop.              *)

NRequests == 2       \* concurrent /chat requests
MaxSamples == 2      \* iterations of the monitoring loop per behaviour

SampleSleep == 30
SampleErrorSleep == 60

RequestIds == 1..NRequests

\* the message field of the bodies posted to /chat: a short question,
\* blanks only, "" and 1001 characters
ChatMessages == {Input(TRUE, TRUE, TRUE, 5, 5),
                 Input(TRUE, TRUE, TRUE, 2, 0),
                 Input(TRUE, TRUE, TRUE, 0, 0),
                 Input(TRUE, TRUE, TRUE, MaxMessageLen + 1,
                       MaxMessageLen + 1)}

\* ChatRequest.message: a str of min_length 1 and max_length 1000
ChatRequestAccepts(inp) ==
    inp.present /\ inp.isStr /\ 1 <= inp.len /\ inp.len <= MaxMessageLen

\* messages that pass ChatRequest (1..1000 characters)
ChatInputs == {inp \in ChatMessages : ChatRequestAccepts(inp)}

\* FastAPI's answer to a body that fails ChatRequest
Unprocessable == 422

\* what graph.invoke may do for a /chat request
ChatBehaviours ==
    {GraphInvoke(<<"profile_analysis", "|", "0.9">>, FALSE, FALSE, NoError),
     GraphInvoke(<<>>, TRUE, FALSE, Err("ModelTimeoutError", "model timed out")),
     GraphInvoke(<<>>, TRUE, FALSE, Err("Exception", "connection refused"))}

NewRequest == [pc |-> "ready", input |-> Input(FALSE, FALSE, FALSE, 0, 0),
               attempt |-> 0, last_exception |-> NoError, sleepFor |-> 0,
               outcome |-> NoOutcome, status |-> 0]

\* the event loop runs the endpoint of request t: the request body has been
\* validated into a ChatRequest, rate_limit_check has returned (the gate is
\* off), start_time is taken and the wrapper around invoke is entered
ChatBegin(t) ==
    /\ tasks[t].pc = "ready"
    /\ CanRun(t)
    /\ \E inp \in ChatInputs :
         tasks' = [tasks EXCEPT ![t] = [NewRequest EXCEPT !.pc = "call",
                                                         !.input = inp]]
    /\ rl' = [rl EXCEPT !.running = t]
    /\ UNCHANGED <<run, ex, pg, mc, perf, eh, clock, hist>>

\* the body of request t fails ChatRequest: FastAPI answers 422 and the
\* endpoint is not run
ChatReject(t) ==
    /\ tasks[t].pc = "ready"
    /\ CanRun(t)
    /\ \E inp \in ChatMessages \ ChatInputs :
         tasks' = [tasks EXCEPT ![t] = [NewRequest EXCEPT
                                          !.pc = "done", !.input = inp,
                                          !.status = Unprocessable]]
    /\ UNCHANGED <<run, ex, pg, mc, perf, eh, rl, clock, hist>>

\* HTTP status of the response chat_endpoint builds from what invoke
\* returned or raised
ChatStatus(outcome) == IF outcome.kind = "raised" THEN 500 ELSE 200

\* one iteration of the wrapper's loop inside chat_endpoint; when the wrapper
\* returns or raises, the endpoint answers and the loop is free again
ChatCall(t) ==
    /\ tasks[t].pc = "call"
    /\ rl.running = t
    /\ \E g \in ChatBehaviours :
         LET w == tasks[t]
             r == invoke(w.input, g, pg, mc, perf, clock)
             last == IF r.raised /\ RemembersError(r.err) THEN r.err
                     ELSE w.last_exception
             out == IF ~r.raised
                    THEN [kind |-> "result", intent |-> r.intent,
                          err |-> NoError]
                    ELSE AfterLoop(TRUE, last)
         IN  /\ pg' = r.pg
             /\ mc' = r.mc
             /\ perf' = r.perf
             /\ eh' = IF r.raised THEN log_error(eh, r.err) ELSE eh
             /\ IF r.raised /\ HandlerRetries(r.err)
                   /\ ShouldRetry(w.attempt, ProductionRetries)
                THEN /\ tasks' = [tasks EXCEPT ![t] =
                           [w EXCEPT !.pc = "sleep", !.last_exception = last,
                                     !.sleepFor = BackoffDelay(r.err, w.attempt,
                                                               Delay)]]
                     /\ rl' = rl
                ELSE /\ tasks' = [tasks EXCEPT ![t] =
                           [w EXCEPT !.pc = "done", !.last_exception = last,
                                     !.outcome = out,
                                     !.status = ChatStatus(out)]]
                     /\ rl' = [rl EXCEPT !.running = Handover(t, "done")]
    /\ UNCHANGED <<run, ex, clock, hist>>

\* time.sleep(...) in the wrapper returns: the thread of the event loop was
\* blocked in it; `continue` with the next attempt
ChatSleep(t) ==
    /\ tasks[t].pc = "sleep"
    /\ rl.running = t
    /\ clock' = clock + tasks[t].sleepFor
    /\ tasks' = [tasks EXCEPT ![t] = [@ EXCEPT !.pc = "call",
                                               !.attempt = @ + 1,
                                               !.sleepFor = 0]]
    /\ UNCHANGED <<run, ex, pg, mc, perf, eh, rl, hist>>

\* _background_monitoring, the try block: the psutil readings are appended
\* and the thread sleeps 30 s
SampleTaken(m, reading) ==
    [m EXCEPT !.gauges = DequeAppend(@, reading),
              !.monitor = [pc |-> "sleep", wait |-> SampleSleep]]

AfterSampleError_dies ==
    [pc |-> "dead", wait |-> 0]

\* _background_monitoring, the except block: the error is logged, the thread
\* sleeps 60 s and the while loop goes round again
AfterSampleError ==
    [pc |-> "sleep", wait |-> SampleErrorSleep]

SampleFailed(m) ==
    [m EXCEPT !.monitor = AfterSampleError]

\* get_metrics_summary, the "system" gauges: the last sample, or 0
SystemSummary(m) ==
    IF Len(m.gauges) > 0 THEN m.gauges[Len(m.gauges)] ELSE 0

\* _background_monitoring, one iteration up to its sleep: the three psutil
\* readings are appended, or psutil raises and the error is logged
SamplerSample ==
    /\ mc.monitor.pc = "sample"
    /\ hist < MaxSamples
    /\ \E ok \in BOOLEAN :
         mc' = IF ok THEN SampleTaken(mc, clock) ELSE SampleFailed(mc)
    /\ hist' = hist + 1
    /\ UNCHANGED <<run, ex, pg, perf, eh, rl, clock, tasks>>

\* the monitoring thread's time.sleep returns
SamplerWake ==
    /\ mc.monitor.pc = "sleep"
    /\ mc' = [mc EXCEPT !.monitor = [pc |-> "sample", wait |-> 0]]
    /\ UNCHANGED <<run, ex, pg, perf, eh, rl, clock, tasks, hist>>

----------------------------------------------------------------------------
(* The monitoring thread on its own, for as long as the process lives.     *)
(* hist records how many samplings failed, the last reading appended and   *)
(* whether a failure is still waiting for the sample that follows it.      *)

MaxFailures == 2

\* psutil percentages, two values standing for all of them
Readings == {10, 20}

\* an iteration whose psutil calls succeed; consecutive readings differ, so
\* that the most recent sample is told apart from the one before it
MonitorOk ==
    /\ mc.monitor.pc = "sample"
    /\ \E v \in Readings \ {hist.last} :
         /\ mc' = SampleTaken(mc, v)
         /\ hist' = [hist EXCEPT !.last = v, !.pending = FALSE]
    /\ UNCHANGED <<run, ex, pg, perf, eh, rl, clock, tasks>>

\* an iteration in which a psutil call raises
MonitorFail ==
    /\ mc.monitor.pc = "sample"
    /\ hist.failures < MaxFailures
    /\ mc' = SampleFailed(mc)
    /\ hist' = [hist EXCEPT !.failures = @ + 1, !.pending = TRUE]
    /\ UNCHANGED <<run, ex, pg, perf, eh, rl, clock, tasks>>

InitSampler ==
    /\ run = IdleRun
    /\ ex = IdleEx
    /\ pg = NewGraphObject
    /\ mc = NewMetrics
    /\ perf = NewPerformance
    /\ eh = NewErrorHandler
    /\ rl = NewRateLimiter(FALSE)
    /\ clock = 0
    /\ tasks = <<>>
    /\ hist = [failures |-> 0, last |-> 0, pending |-> FALSE]

NextSampler ==
    \/ MonitorOk
    \/ MonitorFail
    \/ SamplerWake

\* time.sleep returns, and psutil does not fail for ever
SpecSampler ==
    /\ InitSampler
    /\ [][NextSampler]_vars
    /\ WF_vars(SamplerWake)
    /\ SF_vars(MonitorOk)

----------------------------------------------------------------------------
(* The collectors under a long run of requests: invoke is called again and *)
(* again with a valid request that the graph answers, while time passes.   *)
(* hist is the list of the times at which the requests were recorded.      *)

MaxLoad == 102       \* calls of invoke per behaviour
MaxLoadTicks == 1    \* clock advances per behaviour

LoadTickSteps == {1, 60}

LoadInput == Input(TRUE, TRUE, TRUE, 5, 5)

LoadBehaviour ==
    GraphInvoke(<<"profile_analysis", "|", "0.9">>, FALSE, FALSE, NoError)

\* one call of invoke, not wrapped
LoadInvoke ==
    /\ pg.request_count < MaxLoad
    /\ LET r == invoke(LoadInput, LoadBehaviour, pg, mc, perf, clock) IN
         /\ pg' = r.pg
         /\ mc' = r.mc
         /\ perf' = r.perf
    /\ hist' = Append(hist, clock)
    /\ UNCHANGED <<run, ex, eh, rl, clock, tasks>>

\* time passes between two requests
LoadTick ==
    /\ rl.ticks < MaxLoadTicks
    /\ \E d \in LoadTickSteps : clock' = clock + d
    /\ rl' = [rl EXCEPT !.ticks = @ + 1]
    /\ UNCHANGED <<run, ex, pg, mc, perf, eh, tasks, hist>>

----------------------------------------------------------------------------
(* ProductionInvestmentGraph.invoke called from several threads: the lines  *)
(* that assign the request id.  `self.request_count += 1` is a read        *)
(* followed by a write, and the f-string reads the attribute once more;    *)
(* nothing serialises the callers.  The rest of invoke does not touch the  *)
(* counter.  hist is the list of the ids in the order they were assigned.  *)

MaxCalls == 1        \* calls of invoke per thread

NewCaller == [pc |-> "ready", start |-> 0, tmp |-> 0, calls |-> 0]

\* line 30: start_time = time.time()
IdStart(t) ==
    /\ tasks[t].pc = "ready"
    /\ tasks[t].calls < MaxCalls
    /\ tasks' = [tasks EXCEPT ![t].pc = "read", ![t].start = clock]
    /\ UNCHANGED <<run, ex, pg, mc, perf, eh, rl, clock, hist>>

\* line 31, the read of self.request_count
IdRead(t) ==
    /\ tasks[t].pc = "read"
    /\ tasks' = [tasks EXCEPT ![t].pc = "write",
                              ![t].tmp = pg.request_count]
    /\ UNCHANGED <<run, ex, pg, mc, perf, eh, rl, clock, hist>>

\* line 31, the write of self.request_count
IdWrite(t) ==
    /\ tasks[t].pc = "write"
    /\ pg' = [pg EXCEPT !.request_count = tasks[t].tmp + 1]
    /\ tasks' = [tasks EXCEPT ![t].pc = "format", ![t].tmp = 0]
    /\ UNCHANGED <<run, ex, mc, perf, eh, rl, clock, hist>>

\* line 32: request_id = f"req_{int(start_time)}_{self.request_count}"
IdFormat(t) ==
    /\ tasks[t].pc = "format"
    /\ hist' = Append(hist, [time |-> tasks[t].start,
                             count |-> pg.request_count])
    /\ tasks' = [tasks EXCEPT ![t].pc = "ready", ![t].start = 0,
                              ![t].calls = @ + 1]
    /\ UNCHANGED <<run, ex, pg, mc, perf, eh, rl, clock>>

----------------------------------------------------------------------------
(* Specifications *)

\* the routing graph alone, on every classifier output up to MaxContent
InitGraph ==
    /\ run \in {NewRun(c, i) : c \in SeqsUpTo(Tokens, MaxContent),
                               i \in InputIntents}
    /\ ex = IdleEx
    /\ pg = NewGraphObject
    /\ mc = NewMetrics
    /\ perf = NewPerformance
    /\ eh = NewErrorHandler
    /\ rl = NewRateLimiter(FALSE)
    /\ clock = 0
    /\ tasks = [t \in TaskIds |-> NewTask]
    /\ hist = <<>>

NextGraph == GraphRouter \/ GraphRoute \/ GraphStage

SpecGraph == InitGraph /\ [][NextGraph]_vars

\* the production graph behind its retry executor, called one request after
\* the other, for every choice of the decorator's arguments
Init ==
    /\ run = IdleRun
    /\ ex \in {[IdleEx EXCEPT !.retries = r, !.hasFallback = f] :
                  r \in 0..MaxRetries, f \in BOOLEAN}
    /\ pg = NewGraphObject
    /\ mc = NewMetrics
    /\ perf = NewPerformance
    /\ eh = NewErrorHandler
    /\ rl = NewRateLimiter(FALSE)
    /\ clock = 0
    /\ tasks = [t \in TaskIds |-> NewTask]
    /\ hist = NoHistory

Next == ExBegin \/ ExCall \/ ExSleep \/ HealthBegin \/ HealthReport

Spec == Init /\ [][Next]_vars

\* the rate limiter under concurrent requests
InitRate ==
    /\ run = IdleRun
    /\ ex = IdleEx
    /\ pg = NewGraphObject
    /\ mc = NewMetrics
    /\ perf = NewPerformance
    /\ eh = NewErrorHandler
    /\ rl \in {NewRateLimiter(e) : e \in BOOLEAN}
    /\ clock = 0
    /\ tasks = [t \in TaskIds |-> NewTask]
    /\ hist = <<>>

NextRate ==
    \/ \E t \in TaskIds : RateEnter(t)
    \/ \E t \in TaskIds : RatePrune(t)
    \/ \E t \in TaskIds : RateCheck(t)
    \/ \E t \in TaskIds : RateAppend(t)
    \/ ClockTick

SpecRate == InitRate /\ [][NextRate]_vars

\* record_request called from concurrent threads
InitThreads ==
    /\ run = IdleRun
    /\ ex = IdleEx
    /\ pg = NewGraphObject
    /\ mc = NewMetrics
    /\ perf = NewPerformance
    /\ eh = NewErrorHandler
    /\ rl = NewRateLimiter(FALSE)
    /\ clock = 0
    /\ tasks = [t \in ThreadIds |-> NewThread]
    /\ hist = [calls |-> 0, ok |-> 0, failed |-> 0]

NextThreads ==
    \/ \E t \in ThreadIds : ThreadCall(t)
    \/ \E t \in ThreadIds : ThreadReadTotal(t)
    \/ \E t \in ThreadIds : ThreadWriteTotal(t)
    \/ \E t \in ThreadIds : ThreadReadIntent(t)
    \/ \E t \in ThreadIds : ThreadWriteIntent(t)
    \/ \E t \in ThreadIds : ThreadReadOutcome(t)
    \/ \E t \in ThreadIds : ThreadWriteOutcome(t)

SpecThreads == InitThreads /\ [][NextThreads]_vars

\* the /chat endpoint under concurrent requests, with the monitoring thread
InitServer ==
    /\ run = IdleRun
    /\ ex = IdleEx
    /\ pg = NewGraphObject
    /\ mc = NewMetrics
    /\ perf = NewPerformance
    /\ eh = NewErrorHandler
    /\ rl = NewRateLimiter(FALSE)
    /\ clock = 0
    /\ tasks = [t \in RequestIds |-> NewRequest]
    /\ hist = 0

NextServer ==
    \/ \E t \in RequestIds : ChatBegin(t)
    \/ \E t \in RequestIds : ChatReject(t)
    \/ \E t \in RequestIds : ChatCall(t)
    \/ \E t \in RequestIds : ChatSleep(t)
    \/ SamplerSample
    \/ SamplerWake

SpecServer == InitServer /\ [][NextServer]_vars

\* invoke called from concurrent threads
InitIds ==
    /\ run = IdleRun
    /\ ex = IdleEx
    /\ pg = NewGraphObject
    /\ mc = NewMetrics
    /\ perf = NewPerformance
    /\ eh = NewErrorHandler
    /\ rl = NewRateLimiter(FALSE)
    /\ clock = 0
    /\ tasks = [t \in ThreadIds |-> NewCaller]
    /\ hist = <<>>

NextIds ==
    \/ \E t \in ThreadIds : IdStart(t)
    \/ \E t \in ThreadIds : IdRead(t)
    \/ \E t \in ThreadIds : IdWrite(t)
    \/ \E t \in ThreadIds : IdFormat(t)
    \/ ClockTick

SpecIds == InitIds /\ [][NextIds]_vars

\* the collectors under load
InitLoad ==
    /\ run = IdleRun
    /\ ex = IdleEx
    /\ pg = NewGraphObject
    /\ mc = NewMetrics
    /\ perf = NewPerformance
    /\ eh = NewErrorHandler
    /\ rl = NewRateLimiter(FALSE)
    /\ clock = 0
    /\ tasks = [t \in TaskIds |-> NewTask]
    /\ hist = <<>>

NextLoad == LoadInvoke \/ LoadTick

SpecLoad == InitLoad /\ [][NextLoad]_vars

----------------------------------------------------------------------------
(* Properties of the routing graph, checked under SpecGraph *)

Recognized(content) ==
    LET parts == Split(Strip(content)) IN
    /\ Len(parts) = 2
    /\ \E l \in Labels : parts[1] = <<l>>
    /\ ParseFloat(parts[2]).ok

\* C2: for a classifier output that is unparsable or carries an unknown
\* label, the run dispatches question_answerer and the Context records the
\* default intent question_answering; the recorded intent is in the closed
\* set whenever a Stage is dispatched.
C2_UnknownRoutesToDefault ==
    /\ (run.classified /\ ~Recognized(run.content) /\ run.node = "END") =>
          /\ run.executed = <<"question_answerer">>
          /\ run.state.intent = DefaultIntent
    /\ run.node \in Stages =>
          \E l \in Labels : run.state.intent = <<l>>

----------------------------------------------------------------------------
(* Properties of the retry executor, checked under Spec *)

\* the attempts made so far all raised an error other than ValidationError
AllRetryableFailures(log) ==
    \A i \in 1..Len(log) :
        log[i].raised /\ log[i].err.type # "ValidationError"

\* invocations of the wrapped invoke in the current wrapper call
CallsMade == pg.request_count - ex.base.request_count

\* C3: with retries = r, when invoke raises a non-validation error on k <= r
\* consecutive attempts and then succeeds, the executor returns that result
\* (not the fallback) after exactly k+1 calls; it does not give up while
\* fewer than r+1 attempts have failed.
C3_RetryThenSuccess ==
    /\ (Len(ex.log) >= 1 /\ Len(ex.log) <= ex.retries
          /\ AllRetryableFailures(ex.log)) => ex.pc \in {"sleep", "call"}
    /\ (Len(ex.log) >= 1 /\ ~ex.log[Len(ex.log)].raised
          /\ AllRetryableFailures(SubSeq(ex.log, 1, Len(ex.log) - 1))) =>
          /\ ex.pc = "done"
          /\ ex.outcome.kind = "result"
          /\ Len(ex.log) <= ex.retries + 1
          /\ CallsMade = Len(ex.log)

\* success on the last permitted attempt, after r = 2 retried failures
C3_Witness ==
    /\ ex.pc = "done"
    /\ ex.retries = 2
    /\ Len(ex.log) = 3
    /\ AllRetryableFailures(SubSeq(ex.log, 1, 2))
    /\ ex.outcome.kind = "result"
    /\ CallsMade = 3

\* C4: when all r+1 attempts fail, the executor returns the fallback if one
\* is configured and otherwise raises the error of the last attempt.
C4_ExhaustedFallbackOrLastError ==
    (ex.pc = "done" /\ Len(ex.log) = ex.retries + 1
       /\ \A i \in 1..Len(ex.log) : ex.log[i].raised) =>
        IF ex.hasFallback
        THEN ex.outcome.kind = "fallback"
        ELSE /\ ex.outcome.kind = "raised"
             /\ ex.outcome.err = ex.log[Len(ex.log)].err

\* ProductionInvestmentGraph.invoke's decorator arguments
ProductionConfig == ex.retries = ProductionRetries /\ ex.hasFallback

\* C5: ProductionInvestmentGraph.invoke called with a request that fails
\* validation ends in a ValidationError for the caller, never in the
\* fallback response or a normal result.
C5_InvalidRequestRejected ==
    (ProductionConfig /\ ex.pc = "done" /\ IsInvalid(ex.input)) =>
        /\ ex.outcome.kind = "raised"
        /\ ex.outcome.err.type = "ValidationError"

\* C6: an attempt that raises ValidationError is the last one and is not
\* followed by a backoff wait (the only waits are those after the earlier
\* failures); for an invalid request the classifier and the Stages are not
\* invoked and no graph_execution sample is recorded.
C6_ValidationNeverRetried ==
    /\ \A i \in 1..Len(ex.log) :
          ex.log[i].err.type = "ValidationError" =>
              /\ i = Len(ex.log)
              /\ ex.pc = "done"
              /\ ex.sleepFor = 0
              /\ Len(ex.slept) = i - 1
              /\ CallsMade = i
    /\ (ex.pc # "idle" /\ IsInvalid(ex.input)) =>
          /\ hist.classifier = ex.base.classifier
          /\ hist.stages = ex.base.stages
          /\ Len(perf.graph_execution) = ex.base.samples

\* a ValidationError on the second attempt, after one retried failure
C6_Witness ==
    /\ ex.pc = "done"
    /\ Len(ex.log) = 2
    /\ ex.log[1].err.type = "ModelTimeoutError"
    /\ ex.log[2].err.type = "ValidationError"
    /\ ex.retries = 2
    /\ ex.slept = <<Delay>>

----------------------------------------------------------------------------
(* Properties of the rate limiter, checked under SpecRate.  hist lists the *)
(* finished admission checks with their identity, their `now`, the oldest  *)
(* timestamp recorded for the identity when the check began, the verdict.  *)

\* the earlier checks of the same identity that were admitted less than 60
\* seconds before check j
AdmittedBefore(j) ==
    {i \in 1..(j - 1) :
        /\ hist[i].user = hist[j].user
        /\ hist[i].gated /\ hist[i].admitted
        /\ hist[j].now - hist[i].now < WindowSeconds}

\* C7: with rate limiting enabled and limit m, a check is admitted while
\* fewer than m checks of its identity were admitted in the 60 seconds
\* before it and rejected once m were (the first m in a span are admitted,
\* the (m+1)th is rejected); a check made more than 60 seconds after the
\* oldest recorded timestamp of its identity is admitted.
C7_WindowAdmission ==
    \A j \in 1..Len(hist) :
        hist[j].gated =>
            /\ hist[j].admitted <=>
                  Cardinality(AdmittedBefore(j)) < MaxPerMinute
            /\ (hist[j].oldest >= 0
                  /\ hist[j].now - hist[j].oldest > WindowSeconds) =>
                  hist[j].admitted

\* m checks admitted, the next one rejected inside the span, and a later
\* check admitted once the oldest timestamp is more than 60 seconds old
C7_Witness ==
    \E i, j \in 1..Len(hist) :
        /\ i < j
        /\ hist[i].user = hist[j].user
        /\ hist[i].gated /\ ~hist[i].admitted
        /\ Cardinality(AdmittedBefore(i)) = MaxPerMinute
        /\ hist[j].admitted
        /\ hist[j].oldest >= 0
        /\ hist[j].now - hist[j].oldest > WindowSeconds

\* the checks of hist[j]'s identity admitted in the 60 seconds ending at j
AdmittedInWindow(j) ==
    {i \in 1..Len(hist) :
        /\ hist[i].user = hist[j].user
        /\ hist[i].gated /\ hist[i].admitted
        /\ hist[j].now - hist[i].now >= 0
        /\ hist[j].now - hist[i].now < WindowSeconds}

\* C8: however the concurrent checks of one identity are scheduled, no
\* 60-second window holds more than m admitted requests of that identity.
C8_NoDoubleAdmission ==
    \A j \in 1..Len(hist) :
        (hist[j].gated /\ hist[j].admitted) =>
            Cardinality(AdmittedInWindow(j)) <= MaxPerMinute

\* two requests of one identity pending at the same instant with one slot
\* left in the window: one was admitted and the other rejected
C8_Witness ==
    \E i, j \in 1..Len(hist) :
        /\ i < j
        /\ hist[i].user = hist[j].user
        /\ hist[i].now = hist[j].now
        /\ hist[i].gated /\ hist[i].admitted
        /\ Cardinality(AdmittedBefore(i)) = MaxPerMinute - 1
        /\ hist[j].gated /\ ~hist[j].admitted

----------------------------------------------------------------------------
(* Properties of the metrics collector *)

AllThreadsDone == \A t \in ThreadIds : tasks[t].pc = "done"

\* C9: once all concurrent record_request calls have returned, the counters
\* total_requests, successful_requests and failed_requests equal the number
\* of calls, of successful ones and of failed ones (checked under
\* SpecThreads).
C9_NoLostUpdate ==
    AllThreadsDone =>
        /\ mc.counters["total_requests"] = hist.calls
        /\ mc.counters["successful_requests"] = hist.ok
        /\ mc.counters["failed_requests"] = hist.failed

\* C10: the error rate of the metrics summary equals
\* failed_requests / max(total_requests, 1) after any sequence of recorded
\* requests, and its denominator is never zero (checked under Spec).
C10_ErrorRate ==
    /\ ErrorRate(mc).den # 0
    /\ ErrorRate(mc).num * Max(RequestsSummary(mc).total, 1)
          = RequestsSummary(mc).failed * ErrorRate(mc).den

----------------------------------------------------------------------------
(* Properties of the executor's bookkeeping, checked under Spec *)

\* the wrapper gave up after retries + 1 failed attempts and returned the
\* fallback response
ExhaustedToFallback ==
    /\ ex.pc = "done"
    /\ ex.outcome.kind = "fallback"
    /\ Len(ex.log) = ex.retries + 1
    /\ AllRetryableFailures(ex.log)

\* C11: an invoke that exhausts its retries and returns the fallback has
\* increased total_errors and the error counter of the final failure's kind
\* by exactly one each.
C11_ErrorCountedOnce ==
    ExhaustedToFallback =>
        /\ mc.counters["total_errors"]
              = ex.base.mc.counters["total_errors"] + 1
        /\ DictGet(mc.errors, ex.log[Len(ex.log)].err.type)
              = DictGet(ex.base.mc.errors, ex.log[Len(ex.log)].err.type) + 1

\* growth of a request counter of the MetricsCollector since the wrapper
\* call began
Recorded(c) == mc.counters[c] - ex.base.mc.counters[c]

\* C12: every attempt of invoke, whether it succeeds, fails in dispatch or
\* fails validation, produces exactly one request record: after n attempts
\* total_requests has grown by n, successful_requests by the number of
\* successful attempts and failed_requests by the number of failed ones.
C12_OneRecordPerAttempt ==
    /\ Recorded("total_requests") = Len(ex.log)
    /\ Recorded("successful_requests")
          = Cardinality({i \in 1..Len(ex.log) : ~ex.log[i].raised})
    /\ Recorded("failed_requests")
          = Cardinality({i \in 1..Len(ex.log) : ex.log[i].raised})

\* graph_execution samples appended since the wrapper call began
SamplesAdded == Len(perf.graph_execution) - ex.base.samples

\* C13: every attempt that reaches dispatch appends exactly one
\* graph_execution sample, also when dispatch raises; with retries = 2 and
\* dispatch failing on attempts 1 and 2 and succeeding on attempt 3 the
\* invoke returns the result (not the fallback) with exactly 3 samples
\* appended; after a successful invoke graph_execution is among the
\* component statistics.
C13_SamplePerDispatch ==
    /\ SamplesAdded = hist.classifier - ex.base.classifier
    /\ SamplesAdded = IF IsInvalid(ex.input) THEN 0 ELSE Len(ex.log)
    /\ (ex.retries = 2 /\ Len(ex.log) = 3 /\ ~IsInvalid(ex.input)
          /\ ex.log[1].raised /\ ex.log[2].raised /\ ~ex.log[3].raised) =>
          /\ ex.pc = "done"
          /\ ex.outcome.kind = "result"
          /\ SamplesAdded = 3
    /\ (ex.pc = "done" /\ ex.outcome.kind = "result") =>
          "graph_execution" \in DOMAIN get_component_stats(perf)

\* dispatch raised on the first two attempts and succeeded on the third
C13_Witness ==
    /\ ex.pc = "done"
    /\ ex.retries = 2
    /\ Len(ex.log) = 3
    /\ ex.log[1].raised /\ ex.log[2].raised /\ ~ex.log[3].raised
    /\ ex.outcome.kind = "result"
    /\ SamplesAdded = 3
    /\ get_component_stats(perf)["graph_execution"].count = 3

----------------------------------------------------------------------------
(* Properties of the server, checked under SpecServer *)

\* C14: while one request waits in a backoff delay, only that request is
\* suspended: every other pending request can be taken up by the event loop
\* and the monitoring thread can take its next step.
C14_BackoffSuspendsOnlyItsRequest ==
    \A t \in RequestIds :
        tasks[t].pc = "sleep" =>
            /\ \A o \in RequestIds \ {t} :
                  tasks[o].pc = "ready" => ENABLED ChatBegin(o)
            /\ (mc.monitor.pc = "sample" /\ hist < MaxSamples) =>
                  ENABLED SamplerSample
            /\ mc.monitor.pc = "sleep" => ENABLED SamplerWake

----------------------------------------------------------------------------
(* Further properties of the rate limiter, checked under SpecRate *)

\* how often timestamp x occurs in window ts
Occurrences(ts, x) == Cardinality({i \in 1..Len(ts) : ts[i] = x})

\* the gated checks of identity u made at time x, by verdict
ChecksAt(u, x, admitted) ==
    {j \in 1..Len(hist) : /\ hist[j].user = u /\ hist[j].gated
                          /\ hist[j].now = x
                          /\ hist[j].admitted = admitted}

\* the rejected checks of hist[j]'s identity in the 60 seconds before j
RejectedBefore(j) ==
    {i \in 1..(j - 1) :
        /\ hist[i].user = hist[j].user
        /\ hist[i].gated /\ ~hist[i].admitted
        /\ hist[j].now - hist[i].now < WindowSeconds}

\* C15: a check that finds the pruned window at or above the limit rejects
\* and does not append its timestamp: a window holds a timestamp only as
\* often as a check was admitted at it, and a check is admitted whenever
\* fewer than the limit were admitted in the 60 seconds before it, however
\* many were rejected in between.
C15_RejectionNotRecorded ==
    /\ \A u \in Identities : \A i \in 1..Len(rl.times[u]) :
          Occurrences(rl.times[u], rl.times[u][i])
              <= Cardinality(ChecksAt(u, rl.times[u][i], TRUE))
    /\ \A j \in 1..Len(hist) :
          (hist[j].gated /\ RejectedBefore(j) # {}
             /\ Cardinality(AdmittedBefore(j)) < MaxPerMinute) =>
              hist[j].admitted

\* a check admitted although the admissions and the rejections of the last
\* 60 seconds together reach the limit
C15_Witness ==
    \E j \in 1..Len(hist) :
        /\ hist[j].gated /\ hist[j].admitted
        /\ RejectedBefore(j) # {}
        /\ Cardinality(AdmittedBefore(j)) + Cardinality(RejectedBefore(j))
              >= MaxPerMinute
        /\ Occurrences(rl.times[hist[j].user], hist[j].now)
              = Cardinality(ChecksAt(hist[j].user, hist[j].now, TRUE))

\* C16: with the gate disabled by configuration every check admits and no
\* window is created, pruned or appended to.
C16_DisabledGateAdmitsAll ==
    ~rl.enabled =>
        /\ \A j \in 1..Len(hist) : hist[j].admitted /\ ~hist[j].gated
        /\ \A u \in Identities : rl.times[u] = <<>> /\ ~rl.present[u]
        /\ \A t \in TaskIds : tasks[t].pc \in {"ready", "done"}

\* more checks of one identity at one instant than the limit, all admitted
C16_Witness ==
    /\ ~rl.enabled
    /\ Len(hist) > MaxPerMinute
    /\ \A j \in 1..Len(hist) :
          /\ hist[j].user = hist[1].user /\ hist[j].now = hist[1].now
          /\ hist[j].admitted
    /\ \A u \in Identities : ~rl.present[u]

----------------------------------------------------------------------------
(* Further properties of the routing graph, checked under SpecGraph *)

\* C17: when the classifier call itself raises, the router does not fail
\* the run: the request is classified as question_answering with confidence
\* 0.5 and the run continues to the question_answering Stage.
C17_ClassifierFailureDefaults ==
    run.clsFailed =>
        /\ run.state = [intent |-> DefaultIntent,
                        confidence |-> DefaultConfidence]
        /\ run.node \in {"route", "question_answerer", "END", "errored"}
        /\ run.node = "errored" => run.executed = <<"question_answerer">>
        /\ run.node = "END" => run.executed = <<"question_answerer">>

----------------------------------------------------------------------------
(* Properties of the health probe, checked under Spec *)

\* C18: get_health_status always returns a record with status, uptime and
\* requests_processed, whose status is healthy or unhealthy; it is unhealthy
\* exactly when the probe invoke raised or returned a result with intent
\* "error" (the fallback included); a failure of the probe never leaves
\* get_health_status.
C18_HealthAlwaysReported ==
    /\ (ex.probe /\ ex.pc = "done" /\ ex.health = NoHealth) =>
          ENABLED HealthReport
    /\ (ex.probe /\ ex.health # NoHealth) =>
          /\ ~ex.health.raised
          /\ {"status", "uptime", "requests_processed"}
                \subseteq DOMAIN ex.health
          /\ ex.health.status \in {"healthy", "unhealthy"}
          /\ ex.health.status = "unhealthy" <=>
                \/ ex.outcome.kind = "raised"
                \/ ex.outcome.intent = ErrorIntent
          /\ ex.health.requests_processed = mc.counters["total_requests"]

\* the probe ran into three failures and got the fallback: unhealthy, with
\* the probe's three attempts among the requests processed
C18_Witness ==
    /\ ProductionConfig
    /\ ex.probe
    /\ ex.outcome.kind = "fallback"
    /\ Len(ex.log) = 3
    /\ ex.health.status = "unhealthy"
    /\ ex.health.requests_processed = 3

----------------------------------------------------------------------------
(* Properties of the backoff waits, checked under Spec *)

\* the waits of the current wrapper call, when the failures whose type is in
\* `exponential` wait delay * 2^attempt and the other retryable ones wait
\* delay: the wait after attempt a-1 (the a-th entry of the log), none after
\* the final attempt and none after a ValidationError
WaitsFollow(exponential) ==
    LET wait(a) == IF ex.log[a].err.type \in exponential
                   THEN Delay * 2^(a - 1) ELSE Delay
    IN  /\ \A a \in 1..Len(ex.slept) : ex.slept[a] = wait(a)
        /\ ex.pc = "sleep" =>
              /\ Len(ex.slept) = Len(ex.log) - 1
              /\ ex.sleepFor = wait(Len(ex.log))
              /\ ex.log[Len(ex.log)].err.type # "ValidationError"
        /\ ex.pc = "call" => Len(ex.slept) = Len(ex.log)
        /\ ex.pc = "done" =>
              /\ Len(ex.slept) = Len(ex.log) - 1
              /\ ex.sleepFor = 0
        /\ Len(ex.slept) <= ex.retries

----------------------------------------------------------------------------
(* Freshness of the rate windows, checked under SpecRate *)

\* C20 as stated: in every reachable state no window holds a timestamp
\* older than 60 seconds relative to the current time, also while time
\* passes between checks.
C20_WindowNeverStale ==
    \A u \in Identities : \A i \in 1..Len(rl.times[u]) :
        clock - rl.times[u][i] <= WindowSeconds

\* C20, amended: once a check of an identity has pruned, and until that
\* check returns, the identity's window holds no timestamp that is 60
\* seconds or more older than the check's `now`; between checks a window
\* keeps its old timestamps until the identity's next check.
C20_WindowFreshAfterPrune ==
    \A t \in TaskIds :
        tasks[t].pc \in {"check", "append"} =>
            \A i \in 1..Len(rl.times[tasks[t].user]) :
                tasks[t].now - rl.times[tasks[t].user][i] < WindowSeconds

\* a check that found a timestamp of 60 seconds or more in its identity's
\* window and has pruned it
C20_Witness ==
    \E t \in TaskIds :
        /\ tasks[t].pc = "check"
        /\ tasks[t].oldest >= 0
        /\ tasks[t].now - tasks[t].oldest >= WindowSeconds
        /\ \A i \in 1..Len(rl.times[tasks[t].user]) :
              rl.times[tasks[t].user][i] # tasks[t].oldest

----------------------------------------------------------------------------
(* Properties of the bounded collections, checked under SpecLoad *)

\* the last n entries of s, all of s when it is shorter
LastN(s, n) ==
    IF Len(s) <= n THEN s ELSE SubSeq(s, Len(s) - n + 1, Len(s))

\* C21: after any sequence of appends the graph_execution history holds at
\* most 100 samples and each MetricsCollector window at most window_size
\* entries, and what they hold are the most recently appended entries in
\* their original order.
C21_BoundedHistories ==
    /\ Len(perf.graph_execution) <= 100
    /\ [i \in 1..Len(perf.graph_execution) |->
           perf.graph_execution[i].timestamp] = LastN(hist, 100)
    /\ Len(mc.requests_per_minute) <= WindowSize
    /\ mc.requests_per_minute = LastN(hist, WindowSize)
    /\ Len(mc.response_times) = Len(LastN(hist, WindowSize))

\* 102 requests, the clock advanced between the second and the third: the
\* two oldest entries are gone from both collections
C21_Witness ==
    /\ Len(hist) = 102
    /\ hist[2] # hist[3]
    /\ Len(perf.graph_execution) = 100
    /\ perf.graph_execution[1].timestamp = hist[3]
    /\ perf.graph_execution[100].timestamp = hist[102]
    /\ Len(mc.requests_per_minute) = 100
    /\ mc.requests_per_minute[1] = hist[3]

\* C24: the requests-per-minute value of the metrics summary equals the
\* number of requests recorded in the trailing 60 seconds, however many
\* requests that interval holds.
C24_RequestsPerMinute ==
    RequestsPerMinute(mc, clock)
        = Cardinality({i \in 1..Len(hist) : clock - hist[i] < 60})

----------------------------------------------------------------------------
(* Properties of the error log, checked under Spec *)

\* growth of the error log's total since the wrapper call began
Logged == ErrorLogTotal(eh) - ErrorLogTotal(ex.base.eh)

\* growth of the count the error log keeps for error e
LoggedFor(e) ==
    DictGet(eh.error_counts, <<e.type, e.msg>>)
        - DictGet(ex.base.eh.error_counts, <<e.type, e.msg>>)

\* the log has one entry per key, so that its total is the sum of the
\* per-key counts
OneEntryPerKey ==
    \A i, j \in 1..Len(eh.error_counts) :
        eh.error_counts[i].key = eh.error_counts[j].key => i = j

\* the wrapper gave up after retries + 1 failed attempts
Exhausted ==
    /\ ex.pc = "done"
    /\ Len(ex.log) = ex.retries + 1
    /\ AllRetryableFailures(ex.log)

\* C22 as stated: an invoke whose request fails and exhausts its retries
\* adds exactly one to the error log's total, and the total is the sum of
\* the per-key counts.
C22_OneLogEntryPerInvoke ==
    /\ OneEntryPerKey
    /\ Exhausted => Logged = 1

\* C22, amended: every failed attempt is recorded exactly once in the error
\* log under its kind and message, whether it is retried, ends in the
\* fallback or is raised to the caller; an invoke that exhausts its retries
\* adds retries + 1 to the log's total, and the total is the sum of the
\* per-key counts.
C22_OneLogEntryPerFailedAttempt ==
    /\ OneEntryPerKey
    /\ Logged = Cardinality({i \in 1..Len(ex.log) : ex.log[i].raised})
    /\ \A i \in 1..Len(ex.log) :
          ex.log[i].raised =>
              LoggedFor(ex.log[i].err)
                  = Cardinality({j \in 1..Len(ex.log) :
                                    ex.log[j].err = ex.log[i].err})
    /\ Exhausted => Logged = ex.retries + 1

\* three failed attempts, the first two with the same error: the log grew
\* by three, by two under that error's key
C22_Witness ==
    /\ Exhausted
    /\ ex.retries = 2
    /\ ex.log[1].err = ex.log[2].err
    /\ ex.log[3].err # ex.log[1].err
    /\ Logged = 3
    /\ LoggedFor(ex.log[1].err) = 2

----------------------------------------------------------------------------
(* Properties of the request ids, checked under SpecIds *)

\* C23: the request ids assigned by one executor are pairwise distinct and
\* their counter component strictly increases in the order of assignment,
\* for every interleaving of concurrent invocations.
C23_RequestIdsDistinct ==
    \A i, j \in 1..Len(hist) :
        i < j => /\ hist[i] # hist[j]
                 /\ hist[i].count < hist[j].count

----------------------------------------------------------------------------
(* C25                                                                     *)

\* C25: the background sampler never terminates; after every sampling
\* failure it backs off and resumes, so that a new resource sample is
\* eventually appended; and the summary's gauge is the most recent sample,
\* or 0 while no sample has been collected.
C25_SamplerKeepsSampling ==
    /\ [](mc.monitor.pc \in {"sample", "sleep"})
    /\ [](SystemSummary(mc) = hist.last)
    /\ (hist.pending ~> ~hist.pending)

\* a sample has been appended after the last of several failures
C25_Witness ==
    /\ hist.failures = MaxFailures
    /\ ~hist.pending
    /\ SystemSummary(mc) \in Readings
    /\ mc.monitor = [pc |-> "sleep", wait |-> SampleSleep]

----------------------------------------------------------------------------
(* C27, checked under SpecGraph                                            *)

\* C27: once the router has classified the request, the confidence in the
\* Context lies within [0, 1] (0..100 hundredths), whatever score the
\* classifier reported.
C27_ConfidenceInUnitRange ==
    run.classified =>
        /\ 0 <= run.state.confidence
        /\ run.state.confidence <= 100

----------------------------------------------------------------------------
(* C28, checked under Spec                                                 *)

\* C28: with no fallback configured, whenever the executor gives up the
\* error its caller receives is the error of the most recent attempt; in
\* particular a ValidationError raised by an attempt reaches the caller.
C28_RaisesMostRecentError ==
    (ex.pc = "done" /\ ~ex.hasFallback /\ ex.log # <<>>
       /\ ex.log[Len(ex.log)].raised) =>
        /\ ex.outcome.kind = "raised"
        /\ ex.outcome.err = ex.log[Len(ex.log)].err

----------------------------------------------------------------------------
(* C26, checked under SpecServer                                           *)

\* C26: a /chat request is accepted exactly when its message is a string
\* that is non-empty after trimming and at most 1000 characters long: a
\* request that fails this is never answered with status 200, and a request
\* that meets it is never turned away as unprocessable.
C26_ChatAcceptsExactlyValid ==
    \A t \in RequestIds :
        tasks[t].pc = "done" =>
            IF IsInvalid(tasks[t].input)
            THEN tasks[t].status # 200
            ELSE tasks[t].status # Unprocessable

----------------------------------------------------------------------------
(* C29, checked under Spec                                                 *)

\* failed attempts of invoke since the wrapper call began
FailedAttempts == Cardinality({i \in 1..Len(ex.log) : ex.log[i].raised})

\* C29: the request counters never decrease, total_requests equals
\* successful_requests + failed_requests and equals the sum of the
\* per-intent counters, and every failed attempt of invoke is counted under
\* the intent "error".
C29_CountersAgree ==
    /\ \A c \in DOMAIN mc.counters : mc.counters[c] >= ex.base.mc.counters[c]
    /\ RequestsSummary(mc).total
          = RequestsSummary(mc).successful + RequestsSummary(mc).failed
    /\ RequestsSummary(mc).total = DictSum(mc.intents)
    /\ DictGet(mc.intents, ErrorIntent)
          = DictGet(ex.base.mc.intents, ErrorIntent) + FailedAttempts

----------------------------------------------------------------------------
(* C30, checked under Spec                                                 *)

============================================================================
